---- MODULE Spec2Model ----
(***************************************************************************)
(* Conversation store of pdfizzai-back: ChatService.sendMessage, the       *)
(* usage meter it drives, and the conversation integrity check/recovery.   *)
(* The database tables are the variables; every await of a handler is a    *)
(* step of the process that runs it.                                       *)
(***************************************************************************)
EXTENDS Integers, Sequences, FiniteSets, TLC

(* ------------------------------ bounds --------------------------------- *)
MaxTurns == 2
MaxRecTurns == 1
MaxPassages == 1
MaxChunks == 1
MaxStreamLen == 2
MaxList == 2
MaxMessages == 4
MaxRestarts == 1
MaxConvTurns == 6
MaxContentLen == 2
MaxParts == 5

(* ------------------------- program constants --------------------------- *)
FiveMinutesMs == 300000
RecoveryOffsetMs == 1000
MessageChunkSize == 5
BatchSize == 3
SummaryInterval == 5

(* ------------------------------ universe ------------------------------- *)
Procs == {"p1", "p2"}
Sessions == {"s1", "s2"}
Users == {"u1", "u2"}
Files == {"f1"}
SessionOwner == [s \in Sessions |-> IF s = "s1" THEN "u1" ELSE "u2"]
UsageUsers == {"u1"}
InsertGaps == {400}
Downtimes == {2000, 400000}
PlainChunks == {"txt"}
RefChunks == {"[REF]{\"id\":\"1\"}[/REF]"}
StreamChunks ==
  {"txt", "[REF]{\"id\":\"1\"}[/REF]", "[REF]{\"id\":\"x\"}[/REF]",
   "[REF]null[/REF]", "[REF]junk[/REF]", "[REF]{\"id\":\"1\"}"}
Queries == {"q1", "q2"}
SubQueries == {"a", "b"}
NoSession == "none"
NoUsage == "none"
Null == "NULL"

VARIABLES
  numRawReferences,   \* chat_sessions.numRawReferences
  contextFileIds,     \* chat_sessions.contextFileIds
  messages,           \* chat_messages, in insertion order (id = index)
  passages,           \* extracted_contents, in insertion order (id = index)
  messagesUsed,       \* subscription_usages.messagesUsed of the usage record
  now,                \* wall clock, ms
  pc,                 \* position of each sendMessage invocation
  turn,               \* locals of each sendMessage invocation
  out,                \* fragments yielded to the caller by each invocation
  raised,             \* the invocation ended by throwing to its caller
  refLog,             \* history: rawRefId of every passage created, per session
  genCalls,           \* history: number of text-generation calls started, modulo 2
  turns,              \* history: number of sendMessage invocations started
  rec,                \* the running recoverConversationIntegrity call
  startup,            \* the running onApplicationStartup call
  call                \* a call of a function without side effects

sessionVars == <<numRawReferences, contextFileIds>>
dbVars == <<numRawReferences, contextFileIds, messages, passages, messagesUsed>>
procVars == <<pc, turn, out, raised>>
histVars == <<refLog, genCalls, turns>>

(* ------------------------------ helpers -------------------------------- *)
Range(s) == {s[i] : i \in DOMAIN s}

(* the lists of at most n elements of S *)
Lists(S, n) == UNION {[1 .. k -> S] : k \in 0 .. n}

NoTurn ==
  [sess |-> NoSession, user |-> "none", snap |-> 0, ctx |-> {}, fc |-> {},
   k |-> 0, done |-> {}, extracted |-> <<>>, userMsg |-> 0, count |-> 0,
   streamed |-> <<>>, citations |-> <<>>, usage |-> NoUsage, summary |-> "",
   txMsg |-> 0, txRead |-> 0, aiMsg |-> 0, genFailed |-> FALSE,
   sent |-> <<>>]

(* chat_messages rows of one session, ORDER BY created_at ASC (ties by id) *)
SessionMessageIds(s) == {i \in DOMAIN messages : messages[i].session_id = s}

Before(i, j) ==
  \/ messages[i].created_at < messages[j].created_at
  \/ messages[i].created_at = messages[j].created_at /\ i < j

RECURSIVE SortIds(_)
SortIds(S) ==
  IF S = {} THEN <<>>
  ELSE LET m == CHOOSE i \in S : \A j \in S \ {i} : Before(i, j)
       IN <<m>> \o SortIds(S \ {m})

(* ChatService.findSessionById: the session's messages, oldest first *)
findSessionById(s) == SortIds(SessionMessageIds(s))

(* ChatService.getChatHistory *)
getChatHistory(u, s) ==
  IF SessionOwner[s] = u THEN SortIds(SessionMessageIds(s)) ELSE <<>>

(* ----------------------------- sendMessage ----------------------------- *)

(* chat.service.ts 146-193: the session lookup fails, the error is yielded *)
FindSessionNotFound(p, s, u, mt) ==
  /\ pc[p] = "idle"
  /\ startup.pc = "off"
  /\ turns < mt
  /\ SessionOwner[s] # u
  /\ turns' = turns + 1
  /\ out' = [out EXCEPT ![p] = <<"ERROR">>]
  /\ pc' = [pc EXCEPT ![p] = "done"]
  /\ UNCHANGED <<dbVars, now, turn, raised, refLog, genCalls, rec, startup>>

  /\ UNCHANGED call
(* chat.service.ts 146-251: load the session, resolve the files in context *)
FindSession(p, s, u, fileIds, folderFiles, mt) ==
  /\ pc[p] = "idle"
  /\ startup.pc = "off"
  /\ turns < mt
  /\ SessionOwner[s] = u
  /\ turns' = turns + 1
  /\ turn' = [turn EXCEPT ![p] =
       [NoTurn EXCEPT !.sess = s, !.user = u,
                      !.snap = numRawReferences[s],
                      !.ctx = contextFileIds[s] \cup fileIds,
                      !.fc = (IF fileIds # {} THEN fileIds
                              ELSE contextFileIds[s]) \cup folderFiles]]
  /\ pc' = [pc EXCEPT ![p] = "retrieve"]
  /\ out' = [out EXCEPT ![p] = <<>>]
  /\ raised' = [raised EXCEPT ![p] = FALSE]
  /\ UNCHANGED <<dbVars, now, refLog, genCalls, rec, startup>>

  /\ UNCHANGED call
(* chat.service.ts 264-305: plan the queries, synthesize the questions and *)
(* issue one search call per (query, file, question), all of them at once  *)
Retrieve(p, k) ==
  /\ pc[p] = "retrieve"
  /\ IF turn[p].fc = {} THEN k = 0 ELSE k % Cardinality(turn[p].fc) = 0
  /\ turn' = [turn EXCEPT ![p].k = k]
  /\ pc' = [pc EXCEPT ![p] = "search"]
  /\ UNCHANGED <<dbVars, now, out, raised, refLog, genCalls, turns, rec, startup>>
  /\ UNCHANGED call

(* chat.service.ts 296-305: the search calls in flight: every call of the  *)
(* turn is pushed before any is awaited                                    *)
SearchesInFlight(p) == IF pc[p] = "search" THEN turn[p].k ELSE 0

(* chat.service.ts 307-337: every search call has returned; one filter     *)
(* call is issued per search result                                        *)
SearchesDone(p) ==
  /\ pc[p] = "search"
  /\ pc' = [pc EXCEPT ![p] = "filters"]
  /\ UNCHANGED turn
  /\ UNCHANGED <<dbVars, now, out, raised, refLog, genCalls, turns, rec, startup>>

  /\ UNCHANGED call
(* chat.service.ts 328-355: one filter call completes, in any order *)
FilterDone(p, i) ==
  /\ pc[p] = "filters"
  /\ i \in (1 .. turn[p].k) \ turn[p].done
  /\ turn' = [turn EXCEPT ![p].done = @ \cup {i}]
  /\ UNCHANGED <<dbVars, now, pc, out, raised, refLog, genCalls, turns, rec, startup>>

  /\ UNCHANGED call
(* chat.service.ts 362-373: number the results in call order, starting     *)
(* above the counter value read when the session was loaded                *)
NumberResults(snap, k, fc) ==
  [i \in 1 .. k |-> [fileId |-> CHOOSE f \in fc : TRUE, rawRefId |-> snap + i]]

(* chat.service.ts 352-377: all calls are in; number, store the counter *)
AssignReferences(p) ==
  /\ pc[p] = "filters"
  /\ turn[p].done = 1 .. turn[p].k
  /\ turn' = [turn EXCEPT ![p].extracted =
                NumberResults(turn[p].snap, turn[p].k, turn[p].fc)]
  /\ numRawReferences' =
       [numRawReferences EXCEPT ![turn[p].sess] = turn[p].snap + turn[p].k]
  /\ pc' = [pc EXCEPT ![p] = "savePassages"]
  /\ UNCHANGED <<contextFileIds, messages, passages, messagesUsed, now, out,
                 raised, refLog, genCalls, turns, rec, startup>>

  /\ UNCHANGED call
(* a row that also stores the passage's number and its session relation *)
ExtractedContentRowWithRef(id, sessionId, userId, content) ==
  [id |-> id, sessionId |-> sessionId, userId |-> userId,
   fileId |-> content.fileId, rawRefId |-> content.rawRefId,
   chatSession |-> sessionId]

(* file.service.ts 460-484: the row written for one extracted passage;     *)
(* rawRefId and the chatSession relation are not among the saved fields    *)
ExtractedContentRow(id, sessionId, userId, content) ==
  [id |-> id, sessionId |-> sessionId, userId |-> userId,
   fileId |-> content.fileId, rawRefId |-> Null, chatSession |-> Null]

RECURSIVE SavedRows(_, _, _, _)
SavedRows(first, sessionId, userId, contents) ==
  IF contents = <<>> THEN <<>>
  ELSE <<ExtractedContentRow(first, sessionId, userId, Head(contents))>>
       \o SavedRows(first + 1, sessionId, userId, Tail(contents))

(* chat.service.ts 384-389: save the first n passages; n < k is a failure  *)
(* of the save after n rows, which aborts the turn                         *)
SaveExtractedContent(p, n) ==
  /\ pc[p] = "savePassages"
  /\ n \in 0 .. turn[p].k
  /\ LET s == turn[p].sess
         part == SubSeq(turn[p].extracted, 1, n)
     IN /\ passages' = passages \o
                SavedRows(Len(passages) + 1, s, turn[p].user, part)
        /\ refLog' = [refLog EXCEPT ![s] =
                        @ \o [i \in 1 .. n |-> part[i].rawRefId]]
  /\ IF n = turn[p].k
     THEN /\ pc' = [pc EXCEPT ![p] = "saveUser"]
          /\ UNCHANGED <<turn, raised>>
     ELSE /\ pc' = [pc EXCEPT ![p] = "failed"]
          /\ raised' = [raised EXCEPT ![p] = TRUE]
          /\ UNCHANGED turn
  /\ UNCHANGED <<sessionVars, messages, messagesUsed, now, out, genCalls,
                 turns, rec, startup>>

  /\ UNCHANGED call
(* chat.service.ts 396-453: create and save the user message *)
SaveUserMessage(p, gap) ==
  /\ pc[p] = "saveUser"
  /\ messages' = Append(messages,
       [session_id |-> turn[p].sess, role |-> "user", created_at |-> now,
        content |-> <<>>, citations |-> <<>>, conversationSummary |-> ""])
  /\ now' = now + gap
  /\ turn' = [turn EXCEPT ![p].userMsg = Len(messages) + 1]
  /\ pc' = [pc EXCEPT ![p] = "yieldUser"]
  /\ UNCHANGED <<sessionVars, passages, messagesUsed, out, raised, refLog,
                 genCalls, turns, rec, startup>>

  /\ UNCHANGED call
(* the id is not surfaced *)
SkipUserMessageId(p) ==
  /\ pc[p] = "yieldUser"
  /\ pc' = [pc EXCEPT ![p] = "reload"]
  /\ UNCHANGED <<dbVars, now, turn, out, raised, refLog, genCalls, turns, rec,
                 startup>>

  /\ UNCHANGED call
(* chat.service.ts 456: surface the user message id to the caller *)
YieldUserMessageId(p) ==
  /\ pc[p] = "yieldUser"
  /\ out' = [out EXCEPT ![p] = Append(@, "[USER_MESSAGE_ID]")]
  /\ pc' = [pc EXCEPT ![p] = "reload"]
  /\ UNCHANGED <<dbVars, now, turn, raised, refLog, genCalls, turns, rec, startup>>

  /\ UNCHANGED call
(* chat.service.ts 490-500: the messages handed to the generation call: all *)
(* of them up to MessageChunkSize, else the ones after the last full chunk *)
messagesToSend(h) ==
  LET messageCount == Len(h)
      remainingMessages == messageCount % MessageChunkSize
      n == IF remainingMessages = 0 THEN MessageChunkSize ELSE remainingMessages
  IN IF messageCount <= MessageChunkSize THEN h
     ELSE SubSeq(h, messageCount - n + 1, messageCount)

(* part_006 219-225: the messages of the generation input whose summary    *)
(* goes into the prompt                                                    *)
messagesWithSummaries(sent) ==
  {i \in Range(sent) : messages[i].conversationSummary # ""}

(* chat.service.ts 459-508: reload the session's messages and open the     *)
(* generation stream on the messages to send                               *)
ReloadSession(p) ==
  /\ pc[p] = "reload"
  /\ turn' = [turn EXCEPT ![p].count = Len(findSessionById(turn[p].sess)),
                          ![p].sent = messagesToSend(findSessionById(turn[p].sess))]
  /\ genCalls' = (genCalls + 1) % 2
  /\ pc' = [pc EXCEPT ![p] = "stream"]
  /\ UNCHANGED <<dbVars, now, out, raised, refLog, turns, rec, startup>>

  /\ UNCHANGED call
(* a loop that puts the chunk in front of the accumulated text *)
StreamChunkPrepended(p, c, bound) ==
  /\ pc[p] = "stream"
  /\ Len(turn[p].streamed) < bound
  /\ turn' = [turn EXCEPT ![p].streamed = <<c>> \o @]
  /\ out' = [out EXCEPT ![p] = Append(@, c)]
  /\ UNCHANGED <<dbVars, now, pc, raised, refLog, genCalls, turns, rec, startup>>

  /\ UNCHANGED call
(* chat.service.ts 508-520: one chunk arrives: accumulate it, forward it *)
StreamChunk(p, c, bound) ==
  /\ pc[p] = "stream"
  /\ Len(turn[p].streamed) < bound
  /\ turn' = [turn EXCEPT ![p].streamed = Append(@, c)]
  /\ out' = [out EXCEPT ![p] = Append(@, c)]
  /\ UNCHANGED <<dbVars, now, pc, raised, refLog, genCalls, turns, rec, startup>>

  /\ UNCHANGED call
(* part_006 281-310: the stream ends, by completion or by a swallowed error *)
StreamEnd(p) ==
  /\ pc[p] = "stream"
  /\ pc' = [pc EXCEPT ![p] = "cite"]
  /\ UNCHANGED <<dbVars, now, turn, out, raised, refLog, genCalls, turns, rec, startup>>

  /\ UNCHANGED call
(* part_006 297-309: the generation call or its stream fails (upstream     *)
(* error, authentication, quota): the generator logs the error and ends;   *)
(* genFailed records, for the properties only, that this is what happened  *)
StreamFails(p) ==
  /\ pc[p] = "stream"
  /\ turn' = [turn EXCEPT ![p].genFailed = TRUE]
  /\ pc' = [pc EXCEPT ![p] = "cite"]
  /\ UNCHANGED <<dbVars, now, out, raised, refLog, genCalls, turns, rec, startup>>

  /\ UNCHANGED call
(* crypto-polyfill.ts 124-173, chat.service.ts 508-520: the consumer of    *)
(* the stream stops taking fragments after a chunk (its write failed, the  *)
(* for-await loop is left and the generator is closed): sendMessage ends   *)
(* at the yield of that chunk and runs nothing after it                    *)
StopConsuming(p) ==
  /\ pc[p] = "stream"
  /\ turn[p].streamed # <<>>
  /\ pc' = [pc EXCEPT ![p] = "cancelled"]
  /\ UNCHANGED <<dbVars, now, turn, out, raised, refLog, genCalls, turns, rec,
                 startup>>
  /\ UNCHANGED call

(* ------------------------- citation resolution ------------------------- *)

(* chat.service.ts 523-524: /\[REF\]([\s\S]*?)\[\/REF\]/g over the text,   *)
(* here a sequence of tokens: each match runs from an opening tag to the    *)
(* first closing tag after it, and the scan resumes behind that match; the  *)
(* result is the sequence of the bodies between the tags                    *)
FirstAt(toks, from, t) ==
  IF \E i \in from .. Len(toks) : toks[i] = t
  THEN CHOOSE i \in from .. Len(toks) :
         /\ toks[i] = t
         /\ \A j \in from .. (i - 1) : toks[j] # t
  ELSE 0

RECURSIVE MatchFrom(_, _)
MatchFrom(toks, from) ==
  LET o == FirstAt(toks, from, "[REF]")
      c == IF o = 0 THEN 0 ELSE FirstAt(toks, o + 1, "[/REF]")
  IN IF o = 0 \/ c = 0 THEN <<>>
     ELSE <<SubSeq(toks, o + 1, c - 1)>> \o MatchFrom(toks, c + 1)

(* the text of one chunk as tokens: tags, marker bodies, other text *)
Tokens(chunk) ==
  CASE chunk = "[REF]{\"id\":\"1\"}[/REF]" -> <<"[REF]", "{\"id\":\"1\"}", "[/REF]">>
    [] chunk = "[REF]{\"id\":\"x\"}[/REF]" -> <<"[REF]", "{\"id\":\"x\"}", "[/REF]">>
    [] chunk = "[REF]null[/REF]" -> <<"[REF]", "null", "[/REF]">>
    [] chunk = "[REF]junk[/REF]" -> <<"[REF]", "junk", "[/REF]">>
    [] chunk = "[REF]{\"id\":\"1\"}" -> <<"[REF]", "{\"id\":\"1\"}">>
    [] OTHER -> <<chunk>>

(* chat.service.ts 510: streamedContent += chunk *)
RECURSIVE Concat(_)
Concat(chunks) ==
  IF chunks = <<>> THEN <<>> ELSE Tokens(Head(chunks)) \o Concat(Tail(chunks))

citationMatches(streamedContent) == MatchFrom(Concat(streamedContent), 1)

(* JSON.parse of a marker body: "ok" with the value's id, "null" for the   *)
(* JSON value null, "error" when the body is not JSON                      *)
JsonParse(body) ==
  IF Len(body) # 1 THEN [kind |-> "error", id |-> ""]
  ELSE CASE body[1] = "{\"id\":\"1\"}" -> [kind |-> "ok", id |-> "1"]
         [] body[1] = "{\"id\":\"2\"}" -> [kind |-> "ok", id |-> "2"]
         [] body[1] = "{\"id\":\"x\"}" -> [kind |-> "ok", id |-> "x"]
         [] body[1] = "null" -> [kind |-> "null", id |-> ""]
         [] OTHER -> [kind |-> "error", id |-> ""]

(* parseInt(id, 10); 0 stands for NaN (reference numbers start at 1) *)
ParseInt(id) ==
  CASE id = "1" -> 1
    [] id = "2" -> 2
    [] OTHER -> 0

(* chat.service.ts 530-550: the citations parsed out of the matches; an    *)
(* empty body is skipped, a body that does not parse is logged and dropped *)
RECURSIVE ParsedCitations(_)
ParsedCitations(bodies) ==
  IF bodies = <<>> THEN <<>>
  ELSE LET j == JsonParse(Head(bodies))
       IN (IF Head(bodies) = <<>> \/ j.kind = "error" THEN <<>> ELSE <<j>>)
          \o ParsedCitations(Tail(bodies))

(* a lookup that takes the number for the row's id and ignores the session *)
getExtractedContentByRowId(rawRefId, userId, sessionId) ==
  {i \in DOMAIN passages : passages[i].id = rawRefId}

(* chat.service.ts 826-852: the passage with this rawRefId in this session *)
(* of this user; the empty set when there is none (NotFoundException)      *)
getExtractedContentByRawRefId(rawRefId, userId, sessionId) ==
  {i \in DOMAIN passages :
     /\ passages[i].chatSession # Null
     /\ SessionOwner[passages[i].chatSession] = userId
     /\ passages[i].chatSession = sessionId
     /\ passages[i].rawRefId = rawRefId}

(* chat.service.ts 571-599: for the parsed value null, reading its id      *)
(* throws inside the try block and again inside the catch block that logs  *)
(* it, so the transformation rejects                                       *)
TransformThrows(cits) == \E i \in DOMAIN cits : cits[i].kind = "null"

(* chat.service.ts 569-611: resolve each parsed citation; NaN, not-found   *)
(* and lookup errors all drop the citation                                 *)
RECURSIVE TransformCitations(_, _, _)
TransformCitations(cits, userId, sessionId) ==
  IF cits = <<>> THEN <<>>
  ELSE LET c == Head(cits)
           n == ParseInt(c.id)
           found == getExtractedContentByRawRefId(n, userId, sessionId)
       IN (IF n = 0 \/ found = {} THEN <<>>
           ELSE <<[id |-> c.id,
                   passage |-> CHOOSE i \in found : TRUE]>>)
          \o TransformCitations(Tail(cits), userId, sessionId)

(* chat.service.ts 522-611: parse the markers and resolve them; a         *)
(* rejected transformation ends the invocation with the error             *)
ResolveCitations(p) ==
  /\ pc[p] = "cite"
  /\ LET citations == ParsedCitations(citationMatches(turn[p].streamed))
     IN IF TransformThrows(citations)
        THEN /\ pc' = [pc EXCEPT ![p] = "failed"]
             /\ raised' = [raised EXCEPT ![p] = TRUE]
             /\ UNCHANGED turn
        ELSE /\ turn' = [turn EXCEPT ![p].citations =
                  TransformCitations(citations, turn[p].user, turn[p].sess)]
             /\ pc' = [pc EXCEPT ![p] = "prepare"]
             /\ UNCHANGED raised
  /\ UNCHANGED <<dbVars, now, out, refLog, genCalls, turns, rec, startup>>

  /\ UNCHANGED call
(* --------------------- assistant message and usage --------------------- *)

(* seed.service.ts 450-458 *)
getSubscriptionUsageByUser(u) == IF u \in UsageUsers THEN "usage" ELSE NoUsage

(* chat.service.ts 647-648 *)
shouldGenerateSummary(messageCount) ==
  LET totalMessages == messageCount - 1
  IN /\ totalMessages >= 4
     /\ \/ totalMessages % SummaryInterval = 0
        \/ (totalMessages + 1) % SummaryInterval = 0

(* chat.service.ts 632-684: look up the usage record, summarize when due   *)
(* (the summarizer may return nothing), build the assistant message        *)
PrepareAiMessage(p, summary) ==
  /\ pc[p] = "prepare"
  /\ IF shouldGenerateSummary(turn[p].count)
     THEN summary \in {"", "summary"}
     ELSE summary = ""
  /\ turn' = [turn EXCEPT ![p].usage = getSubscriptionUsageByUser(turn[p].user),
                          ![p].summary = summary]
  /\ pc' = [pc EXCEPT ![p] = "txSave"]
  /\ UNCHANGED <<dbVars, now, out, raised, refLog, genCalls, turns, rec, startup>>

  /\ UNCHANGED call
(* chat.service.ts 695-700: inside the transaction, save the message; the  *)
(* row is visible to others only after the commit                          *)
TxSaveAiMessage(p, gap) ==
  /\ pc[p] = "txSave"
  /\ turn' = [turn EXCEPT ![p].txMsg = now]
  /\ now' = now + gap
  /\ pc' = [pc EXCEPT ![p] =
              IF turn[p].usage = NoUsage THEN "txCommit" ELSE "txFind"]
  /\ UNCHANGED <<dbVars, out, raised, refLog, genCalls, turns, rec, startup>>

  /\ UNCHANGED call
(* seed.service.ts 472-497: increaseMessageUsage reads the usage record *)
TxFindUsage(p) ==
  /\ pc[p] = "txFind"
  /\ turn' = [turn EXCEPT ![p].txRead = messagesUsed]
  /\ pc' = [pc EXCEPT ![p] = "txCommit"]
  /\ UNCHANGED <<dbVars, now, out, raised, refLog, genCalls, turns, rec, startup>>

  /\ UNCHANGED call
(* the counter after a rollback had the increment been saved through the   *)
(* repository's own connection: a write already made stays                 *)
UsageAfterRollbackOwnManager(p) ==
  IF pc[p] = "txCommit" /\ turn[p].usage # NoUsage
  THEN turn[p].txRead + 1
  ELSE messagesUsed

(* seed.service.ts 508-512: the counter after the transaction of p is      *)
(* rolled back: increaseMessageUsage saved through the entity manager of   *)
(* the transaction, so its write is undone with the rest                   *)
UsageAfterRollback(p) == messagesUsed

AiMessageRow(p) ==
  [session_id |-> turn[p].sess, role |-> "assistant",
   created_at |-> turn[p].txMsg, content |-> turn[p].streamed,
   citations |-> turn[p].citations,
   conversationSummary |-> turn[p].summary]

(* seed.service.ts 499-517 and chat.service.ts 711-713: the counter read   *)
(* plus one is written and the transaction commits: the message and the    *)
(* counter become visible together                                         *)
TxCommit(p) ==
  /\ pc[p] = "txCommit"
  /\ messages' = Append(messages, AiMessageRow(p))
  /\ messagesUsed' = IF turn[p].usage = NoUsage THEN messagesUsed
                     ELSE turn[p].txRead + 1
  /\ turn' = [turn EXCEPT ![p].aiMsg = Len(messages) + 1]
  /\ pc' = [pc EXCEPT ![p] = "yieldAi"]
  /\ UNCHANGED <<sessionVars, passages, now, out, raised, refLog, genCalls,
                 turns, rec, startup>>

  /\ UNCHANGED call
(* a sendMessage that surfaces the assistant message id before the outcome *)
(* of the transaction is known                                             *)
TxAbortAfterYield(p) ==
  /\ pc[p] \in {"txSave", "txFind", "txCommit"}
  /\ messagesUsed' = UsageAfterRollback(p)
  /\ out' = [out EXCEPT ![p] = Append(@, "[AI_MESSAGE_ID]")]
  /\ pc' = [pc EXCEPT ![p] = "failed"]
  /\ raised' = [raised EXCEPT ![p] = TRUE]
  /\ UNCHANGED <<sessionVars, messages, passages, now, turn, refLog,
                 genCalls, turns, rec, startup>>
  /\ UNCHANGED call

(* chat.service.ts 720-738: a statement of the transaction or its commit   *)
(* fails: everything written in it is rolled back and the error is         *)
(* rethrown to the caller                                                  *)
TxAbort(p) ==
  /\ pc[p] \in {"txSave", "txFind", "txCommit"}
  /\ messagesUsed' = UsageAfterRollback(p)
  /\ pc' = [pc EXCEPT ![p] = "failed"]
  /\ raised' = [raised EXCEPT ![p] = TRUE]
  /\ UNCHANGED <<sessionVars, messages, passages, now, turn, out, refLog,
                 genCalls, turns, rec, startup>>

  /\ UNCHANGED call
(* chat.service.ts 741: surface the assistant message id to the caller *)
YieldAiMessageId(p) ==
  /\ pc[p] = "yieldAi"
  /\ out' = [out EXCEPT ![p] = Append(@, "[AI_MESSAGE_ID]")]
  /\ pc' = [pc EXCEPT ![p] = "context"]
  /\ UNCHANGED <<dbVars, now, turn, raised, refLog, genCalls, turns, rec, startup>>

  /\ UNCHANGED call
(* chat.service.ts 747-752: repository.save(session) writes every column   *)
(* in which the session object loaded at the start of the turn differs     *)
(* from the stored row, the reference counter included                     *)
SavedSessionCounter(p) == turn[p].snap

UpdateSessionContext(p) ==
  /\ pc[p] = "context"
  /\ IF turn[p].ctx # {}
     THEN /\ contextFileIds' = [contextFileIds EXCEPT ![turn[p].sess] = turn[p].ctx]
          /\ numRawReferences' =
               [numRawReferences EXCEPT ![turn[p].sess] = SavedSessionCounter(p)]
     ELSE UNCHANGED sessionVars
  /\ pc' = [pc EXCEPT ![p] = "done"]
  /\ UNCHANGED <<messages, passages, messagesUsed, now, turn, out, raised,
                 refLog, genCalls, turns, rec, startup>>

  /\ UNCHANGED call
(* an awaited call outside every try block rejects: sendMessage throws to  *)
(* its caller (chat.service.ts 264-453, 459-472, 633, 653, 750)            *)
ThrowingPcs ==
  {"retrieve", "search", "filters", "savePassages", "saveUser", "reload",
   "prepare",
   "context"}

CallFails(p) ==
  /\ pc[p] \in ThrowingPcs
  /\ pc' = [pc EXCEPT ![p] = "failed"]
  /\ raised' = [raised EXCEPT ![p] = TRUE]
  /\ UNCHANGED <<dbVars, now, turn, out, refLog, genCalls, turns, rec, startup>>

  /\ UNCHANGED call
(* the caller is done with the generator: its locals are gone *)
Return(p) ==
  /\ pc[p] \in {"done", "failed"}
  /\ pc' = [pc EXCEPT ![p] = "idle"]
  /\ turn' = [turn EXCEPT ![p] = NoTurn]
  /\ out' = [out EXCEPT ![p] = <<>>]
  /\ raised' = [raised EXCEPT ![p] = FALSE]
  /\ UNCHANGED <<dbVars, now, refLog, genCalls, turns, rec, startup>>

  /\ UNCHANGED call
(* the invocation is over and is not followed by another one *)
Finish(p) ==
  /\ pc[p] \in {"done", "failed"}
  /\ pc' = [pc EXCEPT ![p] = "finished"]
  /\ turn' = [turn EXCEPT ![p] = NoTurn]
  /\ out' = [out EXCEPT ![p] = <<>>]
  /\ raised' = [raised EXCEPT ![p] = FALSE]
  /\ UNCHANGED <<dbVars, now, refLog, genCalls, turns, rec, startup>>

  /\ UNCHANGED call
(* ------------------------ integrity check, recovery -------------------- *)

(* the last message is never taken for an orphan *)
NeverTrailingOrphan(h) == FALSE

(* the last message is taken for an orphan whatever its role *)
TrailingMessage(h) == h # <<>>

(* chat.service.ts 937-942: whether the last message counts as orphaned *)
TrailingOrphan(h) == h # <<>> /\ messages[h[Len(h)]].role = "user"

(* chat.service.ts 921-935: scan the consecutive pairs from position i on *)
RECURSIVE ScanPairs(_, _)
ScanPairs(h, i) ==
  IF i >= Len(h) THEN [orphaned |-> <<>>, issues |-> <<>>]
  ELSE LET rest == ScanPairs(h, i + 1)
           cur == messages[h[i]].role
           nxt == messages[h[i + 1]].role
       IN IF cur # nxt THEN rest
          ELSE IF cur = "user"
          THEN [orphaned |-> <<h[i]>> \o rest.orphaned,
                issues |-> <<"Orphaned user message">> \o rest.issues]
          ELSE [orphaned |-> rest.orphaned,
                issues |-> <<"Consecutive assistant messages">> \o rest.issues]

(* chat.service.ts 945-953 *)
SummaryMismatch(h) ==
  Cardinality({i \in Range(h) : messages[i].conversationSummary # ""})
    # Len(h) \div MessageChunkSize

(* chat.service.ts 910-962 *)
checkConversationIntegrity(s, u) ==
  LET h == getChatHistory(u, s)
      pairs == ScanPairs(h, 1)
      orphaned == pairs.orphaned \o
                  (IF TrailingOrphan(h) THEN <<h[Len(h)]>> ELSE <<>>)
      issues == pairs.issues
                \o (IF TrailingOrphan(h)
                    THEN <<"Conversation ends with unresponded user message">>
                    ELSE <<>>)
                \o (IF SummaryMismatch(h) THEN <<"Summary count mismatch">>
                    ELSE <<>>)
  IN [isHealthy |-> issues = <<>>, issues |-> issues,
      orphanedMessages |-> orphaned, totalMessages |-> Len(h),
      lastMessageRole |-> IF h = <<>> THEN "none"
                          ELSE messages[h[Len(h)]].role]

NoRec ==
  [pc |-> "idle", sess |-> NoSession, orphans |-> <<>>, actions |-> 0]

(* chat.service.ts 968-982: check; a healthy session needs no recovery, an *)
(* unhealthy one has its orphaned messages queued for recovery             *)
RecoverBegin(s) ==
  /\ rec.pc = "idle"
  /\ LET check == checkConversationIntegrity(s, SessionOwner[s])
     IN rec' = IF check.isHealthy
               THEN [pc |-> "done", sess |-> s, orphans |-> <<>>, actions |-> 1]
               ELSE [pc |-> "loop", sess |-> s,
                     orphans |-> check.orphanedMessages, actions |-> 0]

(* chat.service.ts 1007-1016 *)
RecoveryRow(s, orphan) ==
  [session_id |-> s, role |-> "assistant",
   created_at |-> messages[orphan].created_at + RecoveryOffsetMs,
   content |-> <<"recovery">>, citations |-> <<>>,
   conversationSummary |-> "Recovery response"]

(* a recovery that answers the orphaned message by overwriting its row *)
RecoverOneInPlace(outcome) ==
  /\ rec.pc = "loop"
  /\ rec.orphans # <<>>
  /\ outcome \in {"saved", "loadFailed", "saveFailed"}
  /\ messages' = IF outcome = "saved"
                 THEN [messages EXCEPT ![Head(rec.orphans)] =
                         RecoveryRow(rec.sess, Head(rec.orphans))]
                 ELSE messages
  /\ genCalls' = IF outcome = "loadFailed" THEN genCalls
                 ELSE (genCalls + 1) % 2
  /\ rec' = [rec EXCEPT !.orphans = Tail(@), !.actions = @ + 1]
  /\ startup' = IF outcome = "saved" THEN startup
                ELSE [startup EXCEPT !.fault = startup.pc # "off"]
  /\ UNCHANGED <<sessionVars, passages, messagesUsed, now, procVars, refLog,
                 turns>>

  /\ UNCHANGED call
(* chat.service.ts 985-1025: recover the next orphaned message: load its   *)
(* context, generate a response, save it; a failure of the load or of the  *)
(* save is recorded and the loop goes on                                   *)
RecoverOne(outcome) ==
  /\ rec.pc = "loop"
  /\ rec.orphans # <<>>
  /\ outcome \in {"saved", "loadFailed", "saveFailed"}
  /\ messages' = IF outcome = "saved"
                 THEN Append(messages, RecoveryRow(rec.sess, Head(rec.orphans)))
                 ELSE messages
  /\ genCalls' = IF outcome = "loadFailed" THEN genCalls
                 ELSE (genCalls + 1) % 2
  /\ rec' = [rec EXCEPT !.orphans = Tail(@), !.actions = @ + 1]
  /\ startup' = IF outcome = "saved" THEN startup
                ELSE [startup EXCEPT !.fault = startup.pc # "off"]
  /\ UNCHANGED <<sessionVars, passages, messagesUsed, now, procVars, refLog,
                 turns>>

  /\ UNCHANGED call
(* chat.service.ts 1027-1034: the final check and the result *)
RecoverEnd ==
  /\ rec.pc = "loop"
  /\ rec.orphans = <<>>
  /\ rec' = [rec EXCEPT !.pc = "done"]
  /\ UNCHANGED <<dbVars, now, procVars, histVars, startup>>

  /\ UNCHANGED call
(* recoverConversationIntegrity called on demand for session s *)
RecoverOnDemand(s) ==
  /\ startup.pc = "off"
  /\ Len(messages) < MaxMessages
  /\ RecoverBegin(s)
  /\ UNCHANGED <<dbVars, now, procVars, histVars, startup>>

  /\ UNCHANGED call
(* the on-demand call has returned *)
RecoverReturn ==
  /\ startup.pc = "off"
  /\ rec.pc = "done"
  /\ rec' = NoRec
  /\ UNCHANGED <<dbVars, now, procVars, histVars, startup>>

  /\ UNCHANGED call
(* ------------------------------- startup ------------------------------- *)

NoStartup == [pc |-> "off", queue |-> <<>>, trailing |-> {}, before |-> 0,
              fault |-> FALSE, restarts |-> 0]

(* the sessions whose last message is a user message *)
EndsWithUser(s) == TrailingOrphan(findSessionById(s))

(* the process stops, whatever it was doing, and starts again after d ms:  *)
(* the invocations in flight are gone, open transactions are rolled back   *)
Restart(d) ==
  /\ startup.pc = "off"
  /\ startup.restarts < MaxRestarts
  /\ now' = now + d
  /\ pc' = [p \in Procs |-> "idle"]
  /\ turn' = [p \in Procs |-> NoTurn]
  /\ out' = [p \in Procs |-> <<>>]
  /\ raised' = [p \in Procs |-> FALSE]
  /\ rec' = NoRec
  /\ startup' = [pc |-> "query", queue |-> <<>>,
                 trailing |-> {s \in Sessions : EndsWithUser(s)},
                 before |-> Len(messages), fault |-> FALSE,
                 restarts |-> startup.restarts + 1]
  /\ UNCHANGED <<dbVars, histVars>>

  /\ UNCHANGED call
(* chat.service.ts 43-49: the rows the query's WHERE clause keeps: user    *)
(* messages of the session created more than five minutes ago              *)
OldUserMessages(s) ==
  {i \in SessionMessageIds(s) :
     /\ messages[i].role = "user"
     /\ messages[i].created_at < now - FiveMinutesMs}

(* chat.service.ts 45-53: the HAVING clause compares the group's latest    *)
(* row with an ungrouped row: a session whose group has one row passes, a  *)
(* session with several rows passes or not with the row the database picks *)
SuspiciousSessionSets ==
  {S \in SUBSET Sessions :
     /\ \A s \in S : OldUserMessages(s) # {}
     /\ \A s \in Sessions : Cardinality(OldUserMessages(s)) = 1 => s \in S}

RECURSIVE SetToSeq(_)
SetToSeq(S) ==
  IF S = {} THEN <<>>
  ELSE LET x == CHOOSE y \in S : TRUE IN <<x>> \o SetToSeq(S \ {x})

(* chat.service.ts 37-57: find the suspicious sessions *)
StartupQuery(S) ==
  /\ startup.pc = "query"
  /\ S \in SuspiciousSessionSets
  /\ startup' = [startup EXCEPT !.pc = "loop", !.queue = SetToSeq(S)]
  /\ UNCHANGED <<dbVars, now, procVars, histVars, rec>>

  /\ UNCHANGED call
(* chat.service.ts 79-82: the query fails; the error is logged, not thrown *)
StartupQueryFails ==
  /\ startup.pc = "query"
  /\ startup' = [startup EXCEPT !.pc = "done", !.fault = TRUE]
  /\ UNCHANGED <<dbVars, now, procVars, histVars, rec>>

  /\ UNCHANGED call
(* chat.service.ts 58-64: check the next suspicious session and recover it *)
(* when the check reports orphaned messages                                *)
StartupCheck ==
  /\ startup.pc = "loop"
  /\ startup.queue # <<>>
  /\ rec.pc = "idle"
  /\ LET s == Head(startup.queue)
         check == checkConversationIntegrity(s, SessionOwner[s])
     IN IF ~check.isHealthy /\ check.orphanedMessages # <<>>
        THEN RecoverBegin(s)
        ELSE rec' = [NoRec EXCEPT !.pc = "done"]
  /\ startup' = [startup EXCEPT !.queue = Tail(@)]
  /\ UNCHANGED <<dbVars, now, procVars, histVars>>

  /\ UNCHANGED call
(* chat.service.ts 66-75: the session is dealt with, on to the next one *)
StartupNext ==
  /\ startup.pc = "loop"
  /\ rec.pc = "done"
  /\ rec' = NoRec
  /\ UNCHANGED <<dbVars, now, procVars, histVars, startup>>

  /\ UNCHANGED call
(* chat.service.ts 58, 76-78: no suspicious session is left *)
StartupDone ==
  /\ startup.pc = "loop"
  /\ startup.queue = <<>>
  /\ rec.pc = "idle"
  /\ startup' = [startup EXCEPT !.pc = "done"]
  /\ UNCHANGED <<dbVars, now, procVars, histVars, rec>>

  /\ UNCHANGED call
(* the process starts serving requests *)
StartupExit ==
  /\ startup.pc = "done"
  /\ startup' = [NoStartup EXCEPT !.restarts = startup.restarts]
  /\ UNCHANGED <<dbVars, now, procVars, histVars, rec>>

  /\ UNCHANGED call
vars == <<numRawReferences, contextFileIds, messages, passages, messagesUsed,
          now, pc, turn, out, raised, refLog, genCalls, turns, rec, startup,
          call>>

NoCall == [fn |-> "none"]

Init ==
  /\ call = NoCall
  /\ numRawReferences = [s \in Sessions |-> 0]
  /\ contextFileIds = [s \in Sessions |-> {}]
  /\ messages = <<>>
  /\ passages = <<>>
  /\ messagesUsed = 0
  /\ now = 0
  /\ pc = [p \in Procs |-> "idle"]
  /\ turn = [p \in Procs |-> NoTurn]
  /\ out = [p \in Procs |-> <<>>]
  /\ raised = [p \in Procs |-> FALSE]
  /\ refLog = [s \in Sessions |-> <<>>]
  /\ genCalls = 0
  /\ turns = 0
  /\ rec = NoRec
  /\ startup = NoStartup

(* the steps of sendMessage run by the invocations in P on sessions of SS, *)
(* at most mt of them in all, with file ids of FI and folder files of FO   *)
(* as input, at most mp search results per turn                            *)
(* and answers of at most n chunks of the set C                            *)
SendMessage(P, SS, FI, FO, mt, mp, C, n) ==
  \/ \E p \in P, s \in SS, u \in Users : FindSessionNotFound(p, s, u, mt)
  \/ \E p \in P, s \in SS, u \in Users, fi \in FI, fo \in FO :
        FindSession(p, s, u, fi, fo, mt)
  \/ \E p \in P, k \in 0 .. mp : Retrieve(p, k)
  \/ \E p \in P : SearchesDone(p)
  \/ \E p \in P, i \in 1 .. mp : FilterDone(p, i)
  \/ \E p \in P : AssignReferences(p)
  \/ \E p \in P, k \in 0 .. mp : SaveExtractedContent(p, k)
  \/ \E p \in P, g \in InsertGaps : SaveUserMessage(p, g)
  \/ \E p \in P : YieldUserMessageId(p)
  \/ \E p \in P : ReloadSession(p)
  \/ \E p \in P, c \in C : StreamChunk(p, c, n)
  \/ \E p \in P : StreamEnd(p)
  \/ \E p \in P : ResolveCitations(p)
  \/ \E p \in P, sm \in {"", "summary"} : PrepareAiMessage(p, sm)
  \/ \E p \in P, g \in InsertGaps : TxSaveAiMessage(p, g)
  \/ \E p \in P : TxFindUsage(p)
  \/ \E p \in P : TxCommit(p)
  \/ \E p \in P : TxAbort(p)
  \/ \E p \in P : YieldAiMessageId(p)
  \/ \E p \in P : UpdateSessionContext(p)
  \/ \E p \in P : CallFails(p)

(* overlapping invocations of sendMessage *)
Next ==
  \/ SendMessage(Procs, Sessions, {{}, Files}, {{}}, Cardinality(Procs),
                 MaxPassages, PlainChunks, MaxChunks)
  \/ \E p \in Procs : Finish(p)

Spec == Init /\ [][Next]_vars

(* one invocation at a time, answers that carry reference markers *)
NextSeq ==
  \/ SendMessage({"p1"}, Sessions, SUBSET Files, SUBSET Files, MaxTurns,
                 MaxPassages, RefChunks, MaxChunks)
  \/ Return("p1")

SpecSeq == Init /\ [][NextSeq]_vars

(* one invocation at a time on one session, with one search result per     *)
(* file and one chunk per answer; restarts of the process, the integrity   *)
(* check at startup and recovery on demand                                 *)
NextRec ==
  \/ SendMessage({"p1"}, {"s1"}, {Files}, {{}}, MaxRecTurns,
                 Cardinality(Files), PlainChunks, Cardinality(PlainChunks))
  \/ Return("p1")
  \/ \E s \in Sessions : RecoverOnDemand(s)
  \/ \E o \in {"saved", "loadFailed", "saveFailed"} : RecoverOne(o)
  \/ RecoverEnd
  \/ RecoverReturn
  \/ \E d \in Downtimes : Restart(d)
  \/ \E S \in SUBSET Sessions : StartupQuery(S)
  \/ StartupQueryFails
  \/ StartupCheck
  \/ StartupNext
  \/ StartupDone
  \/ StartupExit

SpecRec == Init /\ [][NextRec]_vars

(* a fault-free conversation: one invocation at a time by the owner of one *)
(* session, every call succeeds and every transaction commits; long enough *)
(* for the history to pass two chunks of MessageChunkSize messages         *)
NextConv ==
  \/ FindSession("p1", "s1", SessionOwner["s1"], Files, {}, MaxConvTurns)
  \/ \E k \in 0 .. Cardinality(Files) : Retrieve("p1", k)
  \/ SearchesDone("p1")
  \/ \E i \in 1 .. Cardinality(Files) : FilterDone("p1", i)
  \/ AssignReferences("p1")
  \/ \E k \in 0 .. Cardinality(Files) : SaveExtractedContent("p1", k)
  \/ \E g \in InsertGaps : SaveUserMessage("p1", g)
  \/ YieldUserMessageId("p1")
  \/ ReloadSession("p1")
  \/ \E c \in PlainChunks : StreamChunk("p1", c, Cardinality(PlainChunks))
  \/ StreamEnd("p1")
  \/ ResolveCitations("p1")
  \/ \E sm \in {"", "summary"} : PrepareAiMessage("p1", sm)
  \/ \E g \in InsertGaps : TxSaveAiMessage("p1", g)
  \/ TxFindUsage("p1")
  \/ TxCommit("p1")
  \/ YieldAiMessageId("p1")
  \/ UpdateSessionContext("p1")
  \/ Return("p1")

SpecConv == Init /\ [][NextConv]_vars

(* invocations of sendMessage on one session, one at a time, any of which *)
(* may fail, and between them passes of recoverConversationIntegrity in    *)
(* which every generation and every save succeeds                          *)
NextHeal ==
  \/ rec.pc = "idle" /\ FindSession("p1", "s1", SessionOwner["s1"], Files, {},
                                    MaxTurns)
  \/ \E k \in 0 .. Cardinality(Files) : Retrieve("p1", k)
  \/ SearchesDone("p1")
  \/ \E i \in 1 .. Cardinality(Files) : FilterDone("p1", i)
  \/ AssignReferences("p1")
  \/ \E k \in 0 .. Cardinality(Files) : SaveExtractedContent("p1", k)
  \/ \E g \in InsertGaps : SaveUserMessage("p1", g)
  \/ YieldUserMessageId("p1")
  \/ ReloadSession("p1")
  \/ \E c \in PlainChunks : StreamChunk("p1", c, Cardinality(PlainChunks))
  \/ StreamEnd("p1")
  \/ ResolveCitations("p1")
  \/ \E sm \in {"", "summary"} : PrepareAiMessage("p1", sm)
  \/ \E g \in InsertGaps : TxSaveAiMessage("p1", g)
  \/ TxFindUsage("p1")
  \/ TxCommit("p1")
  \/ TxAbort("p1")
  \/ YieldAiMessageId("p1")
  \/ UpdateSessionContext("p1")
  \/ CallFails("p1")
  \/ Return("p1")
  \/ pc["p1"] = "idle" /\ RecoverOnDemand("s1")
  \/ RecoverOne("saved")
  \/ RecoverEnd
  \/ RecoverReturn

SpecHeal == Init /\ [][NextHeal]_vars

(* ------------------------- the message endpoint ------------------------ *)

(* the message bodies of a request: no content, or a text of blanks and    *)
(* letters                                                                 *)
NoContent == [present |-> FALSE, text |-> <<>>]

Contents ==
  {NoContent} \cup
  {[present |-> TRUE, text |-> t] : t \in Lists({" ", "h"}, MaxContentLen)}

(* String.prototype.trim: the text without its leading and trailing blanks *)
RECURSIVE Trim(_)
Trim(text) ==
  IF text = <<>> THEN <<>>
  ELSE IF Head(text) = " " THEN Trim(Tail(text))
  ELSE IF text[Len(text)] = " " THEN Trim(SubSeq(text, 1, Len(text) - 1))
  ELSE text

(* a check that takes only the empty text for empty *)
IsEmptyContentUntrimmed(content) == ~content.present \/ content.text = <<>>

(* crypto-polyfill.ts 101: !messageDto.content || content.trim() === ''    *)
IsEmptyContent(content) == ~content.present \/ Trim(content.text) = <<>>

(* crypto-polyfill.ts 67-198: ChatController.sendMessage: look the session *)
(* up, refuse an empty content, else start to consume the generator of     *)
(* ChatService.sendMessage (chat.service.ts 146-251); every refusal writes *)
(* one error and ends the response                                         *)
ControllerSendMessage(p, s, u, content, fileIds, mt) ==
  /\ pc[p] = "idle"
  /\ startup.pc = "off"
  /\ turns < mt
  /\ turns' = turns + 1
  /\ call' = [fn |-> "ChatController.sendMessage", content |-> content]
  /\ IF SessionOwner[s] # u \/ IsEmptyContent(content)
     THEN /\ out' = [out EXCEPT ![p] = <<"ERROR">>]
          /\ pc' = [pc EXCEPT ![p] = "done"]
          /\ UNCHANGED <<turn, raised>>
     ELSE /\ turn' = [turn EXCEPT ![p] =
               [NoTurn EXCEPT !.sess = s, !.user = u,
                              !.snap = numRawReferences[s],
                              !.ctx = contextFileIds[s] \cup fileIds,
                              !.fc = IF fileIds # {} THEN fileIds
                                     ELSE contextFileIds[s]]]
          /\ pc' = [pc EXCEPT ![p] = "retrieve"]
          /\ out' = [out EXCEPT ![p] = <<>>]
          /\ raised' = [raised EXCEPT ![p] = FALSE]
  /\ UNCHANGED <<dbVars, now, refLog, genCalls, rec, startup>>

(* requests to the endpoint, one at a time, with every content; the steps  *)
(* of sendMessage behind it                                                *)
NextInput ==
  \/ \E s \in Sessions, u \in Users, c \in Contents :
        ControllerSendMessage("p1", s, u, c, Files, MaxTurns)
  \/ \E k \in 0 .. Cardinality(Files) : Retrieve("p1", k)
  \/ SearchesDone("p1")
  \/ \E i \in 1 .. Cardinality(Files) : FilterDone("p1", i)
  \/ AssignReferences("p1")
  \/ \E k \in 0 .. Cardinality(Files) : SaveExtractedContent("p1", k)
  \/ \E g \in InsertGaps : SaveUserMessage("p1", g)
  \/ YieldUserMessageId("p1")
  \/ ReloadSession("p1")
  \/ \E c \in PlainChunks : StreamChunk("p1", c, Cardinality(PlainChunks))
  \/ StreamEnd("p1")
  \/ ResolveCitations("p1")
  \/ \E sm \in {"", "summary"} : PrepareAiMessage("p1", sm)
  \/ \E g \in InsertGaps : TxSaveAiMessage("p1", g)
  \/ TxFindUsage("p1")
  \/ TxCommit("p1")
  \/ TxAbort("p1")
  \/ YieldAiMessageId("p1")
  \/ UpdateSessionContext("p1")
  \/ CallFails("p1")
  \/ Return("p1")

SpecInput == Init /\ [][NextInput]_vars

(* --------------------------- snippet extractor ------------------------- *)

(* texts over a two-letter alphabet *)
Texts == Lists({"a", "b"}, MaxList)

(* part_006 857-861: the chunks of a search result *)
ChunkSets == {S \in SUBSET (Texts \ {<<>>}) : Cardinality(S) \in 1 .. 2}

(* part_006 870-900: what the first call comes back with: no parsed output *)
(* or a snippet, which is whatever text the upstream model wrote           *)
ParsedOutcomes ==
  {[present |-> FALSE, text |-> <<>>]} \cup
  {[present |-> TRUE, text |-> t] : t \in Texts}

(* part_006 851-940: the snippet is the output of the second call when it  *)
(* is not empty, else the text of the first, else the empty string; the    *)
(* second call is made only for a non-empty first text                     *)
filterSearchResults(searchResults, parsedResult, outputText) ==
  LET parsedText == IF parsedResult.present THEN parsedResult.text ELSE <<>>
      response2 == IF parsedText # <<>> THEN outputText ELSE <<>>
  IN [text |-> IF response2 # <<>> THEN response2 ELSE parsedText]

FilterSnippet ==
  /\ call.fn = "filterSearchResults"
  /\ ~call.returned
  /\ call' = [call EXCEPT !.returned = TRUE,
                          !.ret = filterSearchResults(call.searchResults,
                                                      call.parsedResult,
                                                      call.outputText)]
  /\ UNCHANGED <<dbVars, now, procVars, histVars, rec, startup>>

(* the calls of the extractor: any chunks, any output of the two upstream  *)
(* calls                                                                   *)
InitFilter ==
  /\ \E c \in ChunkSets, pr \in ParsedOutcomes, o \in Texts :
       call = [fn |-> "filterSearchResults", searchResults |-> c,
               parsedResult |-> pr, outputText |-> o,
               returned |-> FALSE, ret |-> [text |-> <<>>]]
  /\ numRawReferences = [s \in Sessions |-> 0]
  /\ contextFileIds = [s \in Sessions |-> {}]
  /\ messages = <<>>
  /\ passages = <<>>
  /\ messagesUsed = 0
  /\ now = 0
  /\ pc = [p \in Procs |-> "idle"]
  /\ turn = [p \in Procs |-> NoTurn]
  /\ out = [p \in Procs |-> <<>>]
  /\ raised = [p \in Procs |-> FALSE]
  /\ refLog = [s \in Sessions |-> <<>>]
  /\ genCalls = 0
  /\ turns = 0
  /\ rec = NoRec
  /\ startup = NoStartup

NextFilter == FilterSnippet

SpecFilter == InitFilter /\ [][NextFilter]_vars

(* ------------------------------ IP whitelist --------------------------- *)

(* an address string is the sequence of its parts between the dots, each   *)
(* part the sequence of its characters                                     *)
Digits == {"0", "1", "2", "3", "4", "5", "6", "7", "8", "9"}

DigitValue(c) ==
  CASE c = "0" -> 0 [] c = "1" -> 1 [] c = "2" -> 2 [] c = "3" -> 3
    [] c = "4" -> 4 [] c = "5" -> 5 [] c = "6" -> 6 [] c = "7" -> 7
    [] c = "8" -> 8 [] c = "9" -> 9

NaN == [nan |-> TRUE, n |-> 0]

(* Number(part) on texts of decimal digits and letters: the empty text is  *)
(* 0, a text of digits its value, any other text NaN                       *)
RECURSIVE DecimalValue(_)
DecimalValue(part) ==
  IF part = <<>> THEN 0
  ELSE 10 * DecimalValue(SubSeq(part, 1, Len(part) - 1))
       + DigitValue(part[Len(part)])

Number(part) ==
  IF \A i \in DOMAIN part : part[i] \in Digits
  THEN [nan |-> FALSE, n |-> DecimalValue(part)]
  ELSE NaN

(* ip-whitelist.service.ts 10-18 *)
defaultAllowedIPs ==
  <<<<<<"3", "4">>, <<"1", "9", "4">>, <<"1", "2", "7">>, <<"4", "6">>>>,
    <<<<"5", "4">>, <<"2", "3", "4">>, <<"2", "3", "7">>, <<"1", "0", "8">>>>,
    <<<<"3">>, <<"2", "0", "8">>, <<"1", "2", "0">>, <<"1", "4", "5">>>>,
    <<<<"4", "4">>, <<"2", "2", "6">>, <<"2", "3", "6">>, <<"2", "1", "0">>>>,
    <<<<"4", "4">>, <<"2", "4", "1">>, <<"1", "8", "3">>, <<"6", "2">>>>,
    <<<<"1", "0", "0">>, <<"2", "0">>, <<"1", "7", "2">>, <<"1", "1", "3">>>>,
    <<<<"3", "8">>, <<"4", "3">>, <<"1", "3", "0">>, <<"1", "6", "6">>>>>>

(* the values of ALLOWED_IPS: not set, or a list of addresses *)
AllowedIPsEnvs == {<<>>, <<<<<<"1">>, <<"1">>, <<"1">>, <<"1">>>>>>}

(* ip-whitelist.service.ts 20-31 *)
getAllowedIPs(allowedIPsEnv) ==
  IF allowedIPsEnv # <<>> THEN allowedIPsEnv ELSE defaultAllowedIPs

(* ip-whitelist.service.ts 42-47 *)
vercelIPs ==
  <<[network |-> <<76, 76, 19, 0>>, prefix |-> 24],
    [network |-> <<76, 76, 21, 0>>, prefix |-> 24],
    [network |-> <<76, 223, 126, 88>>, prefix |-> 29],
    [network |-> <<179, 6, 0, 0>>, prefix |-> 16]>>

(* ip-whitelist.service.ts 70-71: (a << 24) + (b << 16) + (c << 8) + d     *)
(* taken to 32 bits by the & that follows, as its four bytes: each shift   *)
(* drops the bits above bit 31 and the sum carries from byte to byte       *)
Int32Bytes(a, b, c, d) ==
  LET b3 == d % 256
      c3 == d \div 256
      b2 == (c + c3) % 256
      c2 == (c + c3) \div 256
      b1 == (b + c2) % 256
      c1 == (b + c2) \div 256
      b0 == (a + c1) % 256
  IN <<b0, b1, b2, b3>>

(* ip-whitelist.service.ts 74-76: x & mask for the mask of a prefix: the   *)
(* first prefix bits of the four bytes                                     *)
Masked(bytes, prefix) ==
  [i \in 1 .. 4 |->
     LET bits == IF prefix >= 8 * i THEN 8
                 ELSE IF prefix <= 8 * (i - 1) THEN 0
                 ELSE prefix - 8 * (i - 1)
     IN (bytes[i] \div (2 ^ (8 - bits))) * (2 ^ (8 - bits))]

(* ip-whitelist.service.ts 60-77: a missing or non-numeric part makes the  *)
(* sum NaN and NaN & mask is 0                                             *)
isIPInRange(ip, range) ==
  LET ipParts == [i \in 1 .. 4 |-> IF i <= Len(ip) THEN Number(ip[i]) ELSE NaN]
      ipInt == IF \E i \in 1 .. 4 : ipParts[i].nan THEN <<0, 0, 0, 0>>
               ELSE Int32Bytes(ipParts[1].n, ipParts[2].n, ipParts[3].n,
                               ipParts[4].n)
      networkInt == Int32Bytes(range.network[1], range.network[2],
                               range.network[3], range.network[4])
  IN Masked(networkInt, range.prefix) = Masked(ipInt, range.prefix)

LocalAddresses ==
  {<<<<"1", "2", "7">>, <<"0">>, <<"0">>, <<"1">>>>,
   <<<<":", ":", "1">>>>,
   <<<<"l", "o", "c", "a", "l", "h", "o", "s", "t">>>>}

(* ip-whitelist.service.ts 33-58 *)
isIPAllowed(ip, nodeEnv, allowedIPsEnv) ==
  \/ nodeEnv = "development" /\ ip \in LocalAddresses
  \/ \E i \in DOMAIN vercelIPs : isIPInRange(ip, vercelIPs[i])
  \/ ip \in Range(getAllowedIPs(allowedIPsEnv))

(* the parts the checked addresses are made of *)
PartTexts ==
  {<<"7", "6">>, <<"1", "9">>, <<"1", "8">>, <<"3", "0", "0">>,
   <<"3", "3", "2">>, <<"5">>, <<>>, <<"x">>}

(* the addresses checked: up to MaxParts parts of PartTexts, the addresses *)
(* on the lists and the local ones                                         *)
Addresses ==
  UNION {[1 .. k -> PartTexts] : k \in 1 .. MaxParts}
  \cup Range(defaultAllowedIPs)
  \cup UNION {Range(e) : e \in AllowedIPsEnvs}
  \cup LocalAddresses

CheckIP ==
  /\ call.fn = "isIPAllowed"
  /\ ~call.returned
  /\ call' = [call EXCEPT !.returned = TRUE,
                          !.ret = isIPAllowed(call.ip, call.nodeEnv,
                                              call.allowedIPsEnv)]
  /\ UNCHANGED <<dbVars, now, procVars, histVars, rec, startup>>

InitIP ==
  /\ \E ip \in Addresses, e \in {"development", "production"},
        a \in AllowedIPsEnvs :
       call = [fn |-> "isIPAllowed", ip |-> ip, nodeEnv |-> e,
               allowedIPsEnv |-> a, returned |-> FALSE, ret |-> FALSE]
  /\ numRawReferences = [s \in Sessions |-> 0]
  /\ contextFileIds = [s \in Sessions |-> {}]
  /\ messages = <<>>
  /\ passages = <<>>
  /\ messagesUsed = 0
  /\ now = 0
  /\ pc = [p \in Procs |-> "idle"]
  /\ turn = [p \in Procs |-> NoTurn]
  /\ out = [p \in Procs |-> <<>>]
  /\ raised = [p \in Procs |-> FALSE]
  /\ refLog = [s \in Sessions |-> <<>>]
  /\ genCalls = 0
  /\ turns = 0
  /\ rec = NoRec
  /\ startup = NoStartup

NextIP == CheckIP

SpecIP == InitIP /\ [][NextIP]_vars

(* ---------------------------- query planner --------------------------- *)


(* part_006 384-423: what the classification call comes back with: it      *)
(* throws (transport error, or a reply the schema rejects), it has no      *)
(* parsed output, its output lacks a list, or it has both lists            *)
ClassifierOutcomes ==
  {[kind |-> k, specific |-> <<>>, generic |-> <<>>] :
     k \in {"throws", "null", "invalid"}}
  \cup {[kind |-> "parsed", specific |-> sp, generic |-> g] :
          sp \in Lists(SubQueries, MaxList), g \in Lists(SubQueries, MaxList)}

(* part_006 442-445, 451-454, 464-467, 494-497 *)
Fallback(query) == [raises |-> FALSE, specific |-> <<>>, generic |-> <<query>>]

(* a planner without the enclosing try block and the empty-lists test *)
userQueryCategorizerUnguarded(query, outcome) ==
  IF outcome.kind = "invalid" THEN Fallback(query)
  ELSE [raises |-> outcome.kind \in {"throws", "null"},
        specific |-> outcome.specific, generic |-> outcome.generic]

(* part_006 372-500: a call that throws lands in the outer catch, and so   *)
(* does the read of .specific on a missing parsed output; an output that   *)
(* lacks a list, or has two empty lists, gives the fallback as well        *)
userQueryCategorizer(query, outcome) ==
  IF outcome.kind \in {"throws", "null", "invalid"} THEN Fallback(query)
  ELSE IF Len(outcome.specific) = 0 /\ Len(outcome.generic) = 0
  THEN Fallback(query)
  ELSE [raises |-> FALSE, specific |-> outcome.specific,
        generic |-> outcome.generic]

(* the call is made *)
CategorizeQuery ==
  /\ call.fn = "userQueryCategorizer"
  /\ ~call.returned
  /\ call' = [call EXCEPT !.returned = TRUE,
                          !.ret = userQueryCategorizer(call.query, call.outcome)]
  /\ UNCHANGED <<dbVars, now, procVars, histVars, rec, startup>>

(* the calls of the planner: any query, any outcome of the classification *)
InitPlan ==
  /\ \E q \in Queries, o \in ClassifierOutcomes :
       call = [fn |-> "userQueryCategorizer", query |-> q, outcome |-> o,
               returned |-> FALSE, ret |-> Fallback(q)]
  /\ numRawReferences = [s \in Sessions |-> 0]
  /\ contextFileIds = [s \in Sessions |-> {}]
  /\ messages = <<>>
  /\ passages = <<>>
  /\ messagesUsed = 0
  /\ now = 0
  /\ pc = [p \in Procs |-> "idle"]
  /\ turn = [p \in Procs |-> NoTurn]
  /\ out = [p \in Procs |-> <<>>]
  /\ raised = [p \in Procs |-> FALSE]
  /\ refLog = [s \in Sessions |-> <<>>]
  /\ genCalls = 0
  /\ turns = 0
  /\ rec = NoRec
  /\ startup = NoStartup

NextPlan == CategorizeQuery

SpecPlan == InitPlan /\ [][NextPlan]_vars

(* one invocation on one session, up to BatchSize + 1 search calls,        *)
(* answers of chunks of every kind, a generation that may fail             *)
NextCite ==
  \/ SendMessage({"p1"}, {"s1"}, {Files}, {{}}, Cardinality({"p1"}),
                 BatchSize + 1, StreamChunks, MaxStreamLen)
  \/ StreamFails("p1")
  \/ StopConsuming("p1")
  \/ Finish("p1")

SpecCite == Init /\ [][NextCite]_vars

(* ------------------------------ properties ----------------------------- *)

(* C1: in every session the reference numbers given to the passages        *)
(* created are strictly increasing in creation order, so none repeats and  *)
(* each is greater than every number assigned before it in the session     *)
C1_ReferenceNumbersStrictlyIncreasing ==
  \A s \in Sessions :
    \A i, j \in DOMAIN refLog[s] : i < j => refLog[s][i] < refLog[s][j]

(* C2: the stored reference counter of a session never decreases *)
C2_CounterNeverDecreases ==
  [][\A s \in Sessions : numRawReferences'[s] >= numRawReferences[s]]_vars

(* the reference numbers an answer cites, as the code parses them *)
CitedNumbers(content) ==
  {ParseInt(c.id) : c \in Range(ParsedCitations(citationMatches(content)))}

(* C3: every citation of a stored assistant message resolves to a passage  *)
(* of the message's own session and owner, and its number was assigned in  *)
(* that session: a number that exists only in another session is dropped   *)
C3_CitationsStayInSession ==
  \A i \in DOMAIN messages :
    \A c \in Range(messages[i].citations) :
      /\ c.passage \in DOMAIN passages
      /\ passages[c.passage].sessionId = messages[i].session_id
      /\ passages[c.passage].userId = SessionOwner[messages[i].session_id]
      /\ ParseInt(c.id) \in Range(refLog[messages[i].session_id])

(* a stored answer cites number 1, which was assigned in the other session *)
(* only, and carries no citation                                           *)
C3_Witness ==
  \E i \in DOMAIN messages :
    /\ messages[i].role = "assistant"
    /\ 1 \in CitedNumbers(messages[i].content)
    /\ 1 \notin Range(refLog[messages[i].session_id])
    /\ \E s \in Sessions \ {messages[i].session_id} : 1 \in Range(refLog[s])
    /\ messages[i].citations = <<>>

(* the assistant messages stored in the sessions of user u *)
AssistantCount(u) ==
  Cardinality({i \in DOMAIN messages :
                 /\ messages[i].role = "assistant"
                 /\ SessionOwner[messages[i].session_id] = u})

(* the invocation is past the persistence step, which stored its answer *)
AnswerStored(p) == turn[p].aiMsg > 0

(* the persistence transaction of the invocation was rolled back *)
TxRolledBack(p) ==
  pc[p] = "failed" /\ turn[p].txMsg > 0 /\ turn[p].aiMsg = 0

(* C4: as stated, for every user: once the persistence step has stored the *)
(* answer the usage counter has been incremented, and while no answer is   *)
(* stored the counter is untouched                                         *)
C4_StoredIffCounted ==
  /\ \A p \in Procs : AnswerStored(p) => messagesUsed > 0
  /\ (\A u \in Users : AssistantCount(u) = 0) => messagesUsed = 0

(* C4: for a user who has a usage record: an answer of the user is stored  *)
(* exactly when the counter was incremented, and the counter never exceeds *)
(* the number of answers stored                                            *)
C4_StoredIffCountedWithUsageRecord ==
  \A u \in UsageUsers :
    /\ AssistantCount(u) = 0 <=> messagesUsed = 0
    /\ messagesUsed <= AssistantCount(u)

(* one transaction of a user with a usage record was rolled back after the *)
(* counter was read, another one committed                                 *)
C4_Witness ==
  \E p, q \in Procs :
    /\ TxRolledBack(p)
    /\ turn[p].usage # NoUsage
    /\ AnswerStored(q)
    /\ turn[q].usage # NoUsage
    /\ messagesUsed = 1

(* C5: for a user with a usage record the counter equals the number of     *)
(* assistant messages stored for that user                                 *)
C5_CounterEqualsAnswers ==
  \A u \in UsageUsers : messagesUsed = AssistantCount(u)

(* the invocation has opened the generation stream *)
GenerationStarted(p) ==
  pc[p] \in {"stream", "cite", "prepare", "txSave", "txFind", "txCommit",
             "yieldAi", "context", "done"}

(* the user message of the invocation is stored in its session *)
UserMessageStored(p) ==
  /\ turn[p].userMsg \in DOMAIN messages
  /\ messages[turn[p].userMsg].role = "user"
  /\ messages[turn[p].userMsg].session_id = turn[p].sess

(* C6: generation is started only after the user message is stored and its *)
(* id fragment has been yielded to the caller                              *)
C6_UserMessageBeforeGeneration ==
  /\ [](\A p \in Procs :
         GenerationStarted(p) /\ turn[p].sess # NoSession =>
           /\ UserMessageStored(p)
           /\ out[p] # <<>>
           /\ out[p][1] = "[USER_MESSAGE_ID]")
  /\ [][genCalls' # genCalls =>
          \E p \in Procs : /\ pc[p] = "reload"
                           /\ UserMessageStored(p)
                           /\ "[USER_MESSAGE_ID]" \in Range(out[p])]_vars

(* an invocation is receiving the chunks of its answer *)
C6_Witness ==
  \E p \in Procs : pc[p] = "stream" /\ turn[p].streamed # <<>>

(* C7: whatever step of a sendMessage on a valid session fails, the user   *)
(* message of that invocation is stored                                    *)
C7_UserMessageStoredOnFailure ==
  \A p \in Procs : pc[p] = "failed" => UserMessageStored(p)

(* C8: when the persistence transaction fails after the user message was   *)
(* stored, the usage counter is unchanged, the failure is raised to the    *)
(* caller, and the integrity check of the session then reports the user    *)
(* message as orphaned and the session as not healthy                      *)
C8_FailedTransactionLeavesOrphan ==
  /\ [][\A p \in Procs :
          pc[p] \in {"txSave", "txFind", "txCommit"} /\ pc'[p] = "failed" =>
            /\ messagesUsed' = messagesUsed
            /\ raised'[p]]_vars
  /\ [](\A p \in Procs :
         TxRolledBack(p) =>
           LET check == checkConversationIntegrity(turn[p].sess, turn[p].user)
           IN /\ ~check.isHealthy
              /\ turn[p].userMsg \in Range(check.orphanedMessages))

(* the transaction of a user with a usage record was rolled back after the *)
(* counter was read                                                        *)
C8_Witness ==
  \E p \in Procs :
    /\ TxRolledBack(p)
    /\ turn[p].usage # NoUsage
    /\ UserMessageStored(p)
    /\ raised[p]

(* the messages stored in session s since the restart *)
StoredSinceRestart(s) == {i \in SessionMessageIds(s) : i > startup.before}

(* C9: after a restart, once the check at startup has run without an       *)
(* error, every session that ended with a user message has got exactly one *)
(* new message: an assistant message created later than that user message  *)
(* and now the last message of the session                                 *)
C9_StartupRecoversTrailingUserMessage ==
  startup.pc = "done" /\ ~startup.fault =>
    \A s \in startup.trailing :
      LET h == findSessionById(s)
          new == StoredSinceRestart(s)
      IN /\ Cardinality(new) = 1
         /\ \A i \in new :
              /\ messages[i].role = "assistant"
              /\ h[Len(h)] = i
              /\ messages[h[Len(h) - 1]].role = "user"
              /\ messages[i].created_at > messages[h[Len(h) - 1]].created_at

(* session s has no orphaned user message: every user message is directly  *)
(* followed by an assistant message                                        *)
NoOrphanedUserMessage(s) ==
  LET h == findSessionById(s)
  IN \A i \in 1 .. Len(h) :
       messages[h[i]].role = "user" =>
         i < Len(h) /\ messages[h[i + 1]].role = "assistant"

(* C10: a recovery that begins on a session without an orphaned user       *)
(* message queues nothing to recover, and a step of a recovery with        *)
(* nothing queued stores, changes and deletes no message and makes no      *)
(* generation call, whether the check called the session healthy or not    *)
C10_RecoveryWithoutOrphanDoesNothing ==
  /\ [][rec.pc = "idle" /\ rec'.pc # "idle"
        /\ NoOrphanedUserMessage(rec'.sess) =>
          /\ rec'.orphans = <<>>
          /\ messages' = messages
          /\ genCalls' = genCalls]_vars
  /\ [][rec.pc # "idle" /\ rec.orphans = <<>> /\ rec' # rec =>
          /\ messages' = messages
          /\ genCalls' = genCalls]_vars

(* a recovery has run to its end on a session that has messages, is not    *)
(* healthy and has no orphaned user message, and has performed no action   *)
C10_Witness ==
  /\ rec.pc = "done"
  /\ rec.actions = 0
  /\ SessionMessageIds(rec.sess) # {}
  /\ NoOrphanedUserMessage(rec.sess)
  /\ ~checkConversationIntegrity(rec.sess, SessionOwner[rec.sess]).isHealthy

(* C11: a step of recoverConversationIntegrity keeps every stored message  *)
(* as it is, with its id, role, content and creation time, and whatever it *)
(* adds is an assistant message of the session under recovery, marked as a *)
(* recovery response                                                       *)
C11_RecoveryOnlyAddsAssistantMessages ==
  [][rec' # rec /\ rec.pc = "loop" =>
       /\ Len(messages') >= Len(messages)
       /\ SubSeq(messages', 1, Len(messages)) = messages
       /\ \A i \in (Len(messages) + 1) .. Len(messages') :
            /\ messages'[i].role = "assistant"
            /\ messages'[i].session_id = rec.sess
            /\ messages'[i].conversationSummary = "Recovery response"]_vars

(* a recovery has stored its answer to an orphaned user message, which is  *)
(* still stored as it was                                                  *)
C11_Witness ==
  /\ rec.pc = "loop"
  /\ rec.actions > 0
  /\ \E i, j \in DOMAIN messages :
       /\ i < j
       /\ messages[i].role = "user"
       /\ messages[i].session_id = rec.sess
       /\ messages[j].conversationSummary = "Recovery response"
       /\ messages[j].created_at = messages[i].created_at + RecoveryOffsetMs

(* the fragments yielded to the caller that are chunks of the answer *)
ControlFragments == {"[USER_MESSAGE_ID]", "[AI_MESSAGE_ID]", "ERROR"}

AnswerChunks(fragments) ==
  SelectSeq(fragments, LAMBDA f : f \notin ControlFragments)

(* C12: the accumulated answer is at every moment the in-order sequence of *)
(* the answer chunks delivered to the caller, and the stored answer is the *)
(* accumulated one                                                         *)
C12_AccumulatorEqualsDeliveredChunks ==
  \A p \in Procs :
    /\ turn[p].streamed = AnswerChunks(out[p])
    /\ turn[p].aiMsg > 0 =>
         messages[turn[p].aiMsg].content = AnswerChunks(out[p])

(* an answer of two different chunks has been streamed and stored *)
C12_Witness ==
  \E p \in Procs :
    /\ turn[p].aiMsg > 0
    /\ Len(turn[p].streamed) >= 2
    /\ turn[p].streamed[1] # turn[p].streamed[2]

(* C13: once the generation has failed, the caller has been given a        *)
(* structured error and no answer is stored for the turn: the turn ends    *)
(* failed, not completed                                                   *)
C13_GenerationFailureReported ==
  \A p \in Procs :
    turn[p].genFailed =>
      /\ "ERROR" \in Range(out[p])
      /\ turn[p].aiMsg = 0
      /\ pc[p] # "done"

(* C14: citation resolution never raises, whatever markers the answer      *)
(* holds: it hands the turn on to persistence, and a marker that is        *)
(* malformed or has no numeric id contributes no citation                  *)
C14_MalformedMarkersNeverFatal ==
  [][\A p \in Procs :
       pc[p] = "cite" /\ pc'[p] # "cite" =>
         /\ pc'[p] = "prepare"
         /\ ~raised'[p]
         /\ \A c \in Range(turn'[p].citations) : ParseInt(c.id) # 0]_vars

C16_PlannerFailOpen ==
  call.fn = "userQueryCategorizer" /\ call.returned =>
    /\ ~call.ret.raises
    /\ ~(call.ret.specific = <<>> /\ call.ret.generic = <<>>)
    /\ (\/ call.outcome.kind # "parsed"
        \/ call.outcome.specific = <<>> /\ call.outcome.generic = <<>>) =>
         /\ call.ret.specific = <<>>
         /\ call.ret.generic = <<call.query>>

(* the planner has returned from a classification call that threw *)
C16_Witness ==
  /\ call.fn = "userQueryCategorizer"
  /\ call.returned
  /\ call.outcome.kind = "throws"
  /\ call.ret.generic = <<call.query>>

(* C17: a turn whose question-synthesis, similarity-search or snippet-     *)
(* filter calls are outstanding never ends in a failure: a call that fails *)
(* for one document leaves the turn running                                *)
C17_RetrievalFailureNotFatal ==
  [][\A p \in Procs :
       pc[p] \in {"retrieve", "search", "filters"} => pc'[p] # "failed"]_vars

(* C18: at every moment of a turn at most BatchSize similarity-search      *)
(* calls are in flight                                                     *)
C18_SearchFanOutBounded ==
  \A p \in Procs : SearchesInFlight(p) <= BatchSize

(* C19: in a fault-free conversation the assistant message that completes  *)
(* exchange n carries a non-empty summary exactly when n is a positive     *)
(* multiple of 5                                                           *)
C19_SummaryEveryFifthExchange ==
  \A s \in Sessions :
    LET h == findSessionById(s)
    IN \A n \in 1 .. (Len(h) \div 2) :
         messages[h[2 * n]].conversationSummary # "" <=>
           n % SummaryInterval = 0

(* C20: while a generation call of sendMessage runs, every earlier message *)
(* of the session that carries a non-empty summary is among the messages   *)
(* whose summary the call was given                                        *)
C20_AllSummariesSupplied ==
  \A p \in Procs :
    pc[p] = "stream" =>
      \A i \in SessionMessageIds(turn[p].sess) :
        i < turn[p].userMsg /\ messages[i].conversationSummary # "" =>
          i \in messagesWithSummaries(turn[p].sent)

(* the positions of a fragment in a stream *)
Positions(stream, fragment) == {i \in DOMAIN stream : stream[i] = fragment}

(* the invocation returned without raising and without an error fragment   *)
EndedSuccessfully(p) ==
  pc[p] = "done" /\ ~raised[p] /\ "ERROR" \notin Range(out[p])

(* C21: a stream that ended successfully holds exactly one user-message-id *)
(* fragment, in front of every answer chunk, and exactly one assistant-    *)
(* message-id fragment, behind every answer chunk; an assistant-message-id *)
(* fragment is in a stream only once the assistant message is committed,   *)
(* never in the stream of a rolled-back transaction                        *)
C21_StreamShape ==
  \A p \in Procs :
    /\ EndedSuccessfully(p) =>
          /\ Positions(out[p], "[USER_MESSAGE_ID]") = {1}
          /\ Positions(out[p], "[AI_MESSAGE_ID]") = {Len(out[p])}
          /\ Len(out[p]) >= 2
    /\ Positions(out[p], "[AI_MESSAGE_ID]") # {} =>
          /\ turn[p].aiMsg \in DOMAIN messages
          /\ messages[turn[p].aiMsg].role = "assistant"
    /\ TxRolledBack(p) => Positions(out[p], "[AI_MESSAGE_ID]") = {}

(* a stream with answer chunks between the two fragments has ended *)
C21_Witness ==
  \E p \in Procs :
    /\ EndedSuccessfully(p)
    /\ Len(out[p]) >= 4
    /\ AnswerChunks(out[p]) # <<>>

(* C22: once the caller has stopped consuming a stream in which the user   *)
(* message was stored and answer chunks were accumulated, the accumulated  *)
(* text is stored as an assistant message of the session                   *)
C22_PartialAnswerPersistedOnCancel ==
  \A p \in Procs :
    pc[p] = "cancelled" /\ turn[p].userMsg > 0 /\ turn[p].streamed # <<>> =>
      \E m \in SessionMessageIds(turn[p].sess) :
        /\ messages[m].role = "assistant"
        /\ messages[m].content = turn[p].streamed

(* the roles of a history alternate user, assistant and end on assistant *)
StrictlyAlternates(h) ==
  /\ Len(h) % 2 = 0
  /\ \A i \in DOMAIN h :
       messages[h[i]].role = (IF i % 2 = 1 THEN "user" ELSE "assistant")

(* C23: when every invocation has returned with its answer stored and none *)
(* has failed, the messages of every session, oldest first, alternate      *)
(* user, assistant, also when the invocations overlapped                   *)
C23_RolesAlternateInSteadyState ==
  (\A p \in Procs : pc[p] = "done" /\ ~raised[p] /\ AnswerStored(p)) =>
    \A s \in Sessions : StrictlyAlternates(findSessionById(s))

(* a content that is missing, empty or made of blanks only *)
BlankContent(content) ==
  ~content.present \/ \A i \in DOMAIN content.text : content.text[i] = " "

(* C24: a request whose content is missing, empty or blank is answered by  *)
(* one error and nothing else: no planner, search or generation call, no   *)
(* message or passage stored, reference and usage counters as they were    *)
C24_EmptyInputRejected ==
  /\ [][\A p \in Procs :
          pc[p] = "idle" /\ pc'[p] # "idle" /\ BlankContent(call'.content) =>
            /\ pc'[p] = "done"
            /\ out'[p] = <<"ERROR">>
            /\ UNCHANGED <<dbVars, genCalls, refLog>>]_vars
  /\ [](call.fn = "ChatController.sendMessage" /\ BlankContent(call.content) =>
          \A p \in Procs : pc[p] \in {"idle", "done"})

(* a request with a blank, non-empty content has been refused *)
C24_Witness ==
  /\ call.fn = "ChatController.sendMessage"
  /\ call.content.present
  /\ call.content.text # <<>>
  /\ BlankContent(call.content)
  /\ SessionOwner["s1"] = "u1"
  /\ pc["p1"] = "done"
  /\ out["p1"] = <<"ERROR">>

(* text is a run of consecutive characters of chunk *)
IsSubstring(text, chunk) ==
  \E i \in 1 .. Len(chunk) + 1, j \in 0 .. Len(chunk) :
    SubSeq(chunk, i, j) = text

(* C25: the text filterSearchResults returns is empty or a run of          *)
(* consecutive characters of one of the chunks it was given                *)
C25_SnippetIsSubstringOfChunk ==
  call.fn = "filterSearchResults" /\ call.returned =>
    \/ call.ret.text = <<>>
    \/ \E chunk \in call.searchResults : IsSubstring(call.ret.text, chunk)

(* a dotted quad: four parts, each one to three digits, each at most 255 *)
WellFormedIPv4(ip) ==
  /\ Len(ip) = 4
  /\ \A i \in 1 .. 4 :
       /\ Len(ip[i]) \in 1 .. 3
       /\ ~Number(ip[i]).nan
       /\ Number(ip[i]).n <= 255

(* the address lies, as a number, in one of the hard-coded ranges *)
InHardCodedRange(ip) ==
  \E i \in DOMAIN vercelIPs :
    LET r == vercelIPs[i]
    IN Masked(<<Number(ip[1]).n, Number(ip[2]).n, Number(ip[3]).n,
                Number(ip[4]).n>>, r.prefix)
       = Masked(r.network, r.prefix)

(* C26: isIPAllowed is true only for an address on the allowed list, a     *)
(* well-formed IPv4 address inside a hard-coded range, or a local address  *)
(* in development                                                          *)
C26_OnlyWhitelistedAddressesAllowed ==
  call.fn = "isIPAllowed" /\ call.returned /\ call.ret =>
    \/ call.ip \in Range(getAllowedIPs(call.allowedIPsEnv))
    \/ WellFormedIPv4(call.ip) /\ InHardCodedRange(call.ip)
    \/ call.nodeEnv = "development" /\ call.ip \in LocalAddresses

(* the reference numbers a turn has assigned to its passages *)
AssignedNumbers(p) == {turn[p].extracted[i].rawRefId : i \in DOMAIN turn[p].extracted}

(* C27: two invocations on one session never assign the same reference     *)
(* number, and once both have returned the stored counter is at least the  *)
(* largest number assigned                                                 *)
C27_OverlappingTurnsAssignDisjointNumbers ==
  \A p, q \in Procs :
    p # q /\ turn[p].sess # NoSession /\ turn[p].sess = turn[q].sess =>
      /\ AssignedNumbers(p) \cap AssignedNumbers(q) = {}
      /\ pc[p] = "done" /\ pc[q] = "done" =>
            \A n \in AssignedNumbers(p) \cup AssignedNumbers(q) :
              numRawReferences[turn[p].sess] >= n

(* C28: every reference number assigned to a stored passage of a session   *)
(* is on that passage's row, and the lookup by that number for the session *)
(* and its owner returns exactly that passage                              *)
C28_ReferenceNumberRoundTrip ==
  \A s \in Sessions :
    \A j \in DOMAIN refLog[s] :
      \E i \in DOMAIN passages :
        /\ passages[i].sessionId = s
        /\ passages[i].chatSession = s
        /\ passages[i].rawRefId = refLog[s][j]
        /\ getExtractedContentByRawRefId(refLog[s][j], SessionOwner[s], s)
             = {i}

(* the summarizer returned a text whenever sendMessage called it *)
SummariesProduced(h) ==
  \A n \in 1 .. (Len(h) \div 2) :
    shouldGenerateSummary(2 * n - 1) =>
      messages[h[2 * n]].conversationSummary # ""

(* C29: between the exchanges of a session built by sequential successful  *)
(* exchanges, in which every summary that was due was produced, the        *)
(* integrity check reports the session healthy                             *)
C29_SequentialExchangesHealthy ==
  \A s \in Sessions :
    (\A p \in Procs : pc[p] \in {"idle", "done"})
      /\ SummariesProduced(findSessionById(s)) =>
        checkConversationIntegrity(s, SessionOwner[s]).isHealthy

(* C30: when a pass of recoverConversationIntegrity in which every         *)
(* generation and save succeeded has ended, the integrity check reports no *)
(* orphaned message and no two consecutive messages of one role, so that a *)
(* second pass has nothing to answer                                       *)
C30_RecoveryConverges ==
  rec.pc = "done" =>
    LET check == checkConversationIntegrity(rec.sess, SessionOwner[rec.sess])
    IN /\ check.orphanedMessages = <<>>
       /\ ScanPairs(findSessionById(rec.sess), 1).issues = <<>>
====
